---- MODULE Spec2Model ----
(***************************************************************************)
(* Model of run_platform_analysis.py: analyze_platforms() turns two        *)
(* literal datasets into a fixed sequence of print calls.                   *)
(*                                                                         *)
(* Strings are TLA+ strings.  A character outside ASCII is written as its  *)
(* code point, <U+XXXX>, so "T<U+00FC>m<U+00FC>" is the tab name of line   *)
(* 42.  Python's None is the empty tuple <<>> and an integer n held in an  *)
(* optional field is <<n>>.                                                *)
(*                                                                         *)
(* out is the sequence of print calls made by the current invocation: one  *)
(* record per call, text the string handed to print (print adds the line   *)
(* end) and at the source line of the call.                                *)
(***************************************************************************)
EXTENDS Integers, Sequences, FiniteSets, TLC

VARIABLES pc, p, t, f, c, k, clock, out, runs

vars == <<pc, p, t, f, c, k, clock, out, runs>>

\* Number of invocations of the script that are followed.
MaxRuns == 2
\* Number of half-minute ticks the wall clock may advance.
MaxTick == 3

(***************************************************************************)
(* The literal data.                                                       *)
(***************************************************************************)
None == <<>>

Tab(name, count, active) == [name |-> name, count |-> count, active |-> active]

platforms_data ==
  << [name |-> "N11",
      status_tabs |-> <<
        Tab("T<U+00FC>m <U+00DC>r<U+00FC>nler", <<5376>>, FALSE),
        Tab("Sat<U+0131><U+015F>takiler", <<4776>>, TRUE),
        Tab("T<U+00FC>kenen <U+00DC>r<U+00FC>nler", <<598>>, FALSE),
        Tab("Sat<U+0131><U+015F>ta Olmayanlar", <<0>>, FALSE),
        Tab("Aksiyon Bekleyenler", <<0>>, FALSE),
        Tab("Katalogdan Reddedilenler", <<1>>, FALSE),
        Tab("Katalog Onay<U+0131> Bekleyenler", <<1>>, FALSE) >>,
      table_columns |-> 14,
      unique_features |-> <<
        "7 distinct product status categories",
        "Advanced table customization (Tabloyu <U+00D6>zelle<U+015F>tir)",
        "CSS variable-based column sizing",
        "Commission rate display in product info",
        "GTIN barcode integration with tooltips",
        "Inline popover editing system",
        "Sophisticated catalog approval workflow" >> ],
     [name |-> "Hepsiburada",
      status_tabs |-> <<
        Tab("T<U+00FC>m<U+00FC>", <<1>>, FALSE),
        Tab("Sat<U+0131><U+015F>ta", None, FALSE),
        Tab("Sat<U+0131><U+015F>a kapal<U+0131>", None, FALSE),
        Tab("Kilitli", <<1>>, FALSE) >>,
      table_columns |-> 12,
      unique_features |-> <<
        "Buybox position tracking",
        "Competitive price monitoring",
        "30-day price history",
        "Product information quality scoring",
        "Data quality alerts",
        "Dynamic filter addition system",
        "Advanced search with multiple criteria" >> ],
     [name |-> "Trendyol",
      status_tabs |-> <<
        Tab("T<U+00FC>m<U+00FC>", None, TRUE),
        Tab("Aktif", None, FALSE),
        Tab("Pasif", None, FALSE),
        Tab("Stokta Yok", None, FALSE) >>,
      table_columns |-> 15,
      unique_features |-> <<
        "Variant management system",
        "Product completion percentage",
        "Delivery time tracking",
        "Grid/Table view toggle",
        "Table settings modal (our implementation)",
        "Advanced filter panel" >> ] >>

recommendations ==
  << [category |-> "<U+1F7E2> HIGH PRIORITY",
      items |-> <<
        "<U+2705> Table Settings Modal (Already implemented!)",
        "<U+1F504> Advanced Status Tab System (N11's 7-category model)",
        "<U+1F4CA> Data Quality Scoring (Hepsiburada pattern)",
        "<U+26A1> Enhanced Bulk Operations" >> ],
     [category |-> "<U+1F7E1> MEDIUM PRIORITY",
      items |-> <<
        "<U+1F4B0> Competitive Price Tracking",
        "<U+1F4C8> Product Completion Percentage",
        "<U+1F3F7><U+FE0F> Commission Display Integration",
        "<U+1F50D> Dynamic Filter Addition" >> ],
     [category |-> "<U+1F534> FUTURE ENHANCEMENTS",
      items |-> <<
        "<U+1F3A8> CSS Variable-based Column Sizing",
        "<U+1F4CA> Buybox Position Tracking",
        "<U+1F514> Data Quality Alerts",
        "<U+1F4CB> Catalog Approval Workflows" >> ] >>

(***************************************************************************)
(* String helpers: what the f-strings, str(), "*", upper() and strftime    *)
(* compute.                                                                *)
(***************************************************************************)
Digits == <<"0", "1", "2", "3", "4", "5", "6", "7", "8", "9">>

RECURSIVE Str(_)
\* str(n) of an integer, as an f-string field renders it.
Str(n) ==
  IF n < 0 THEN "-" \o Str(0 - n)
  ELSE IF n < 10 THEN Digits[n + 1]
  ELSE Str(n \div 10) \o Digits[(n % 10) + 1]

RECURSIVE Repeat(_, _)
\* s * n
Repeat(s, n) == IF n <= 0 THEN "" ELSE s \o Repeat(s, n - 1)

Lower == "abcdefghijklmnopqrstuvwxyz"
UpperLetters == "ABCDEFGHIJKLMNOPQRSTUVWXYZ"

\* upper() of one character; the keys of platforms_data are ASCII.
UpperChar(ch) ==
  IF \E j \in 1..Len(Lower) : SubSeq(Lower, j, j) = ch
  THEN LET j == CHOOSE j \in 1..Len(Lower) : SubSeq(Lower, j, j) = ch
       IN  SubSeq(UpperLetters, j, j)
  ELSE ch

\* Mutant of Upper: the name is printed as stored, .upper() left out.
Upper_Unchanged(s) == s

RECURSIVE Upper(_)
\* platform.upper()
Upper(s) ==
  IF s = "" THEN "" ELSE UpperChar(SubSeq(s, 1, 1)) \o Upper(Tail(s))

\* A strftime field zero-padded to width w (%Y: 4, %m %d %H %M: 2).
Pad(n, w) == Repeat("0", w - Len(Str(n))) \o Str(n)

\* datetime.now(): the wall clock, which stands at 2026-01-05 09:59:00 at
\* tick 0 and advances by half a minute per tick.
Now(ticks) ==
  LET s == ticks * 30
      m == 59 + (s \div 60)
  IN  [year |-> 2026, month |-> 1, day |-> 5,
       hour |-> 9 + (m \div 60), minute |-> m % 60, second |-> s % 60]

\* strftime('%Y-%m-%d %H:%M')
Strftime(d) ==
  Pad(d.year, 4) \o "-" \o Pad(d.month, 2) \o "-" \o Pad(d.day, 2)
    \o " " \o Pad(d.hour, 2) \o ":" \o Pad(d.minute, 2)

Line(at, text) == [at |-> at, text |-> text]

(***************************************************************************)
(* The expressions of the status-tab and feature sections.                 *)
(***************************************************************************)
\* f"\n<U+1F3E2> {platform.upper()}:"
HeadingText(platform) == "\n<U+1F3E2> " \o Upper(platform) \o ":"

\* Mutant of TotalText: the column count is printed for the tab count.
TotalText_Columns(data) == "   Total Categories: " \o Str(data.table_columns)

\* f"   Total Categories: {len(data['status_tabs'])}"
TotalText(data) == "   Total Categories: " \o Str(Len(data.status_tabs))

\* Mutant of ActiveTab: the generator has lost its "if tab['active']".
ActiveTab_Unfiltered(tabs) == IF Len(tabs) > 0 THEN tabs[1].name ELSE "None"

\* next((tab["name"] for tab in data["status_tabs"] if tab["active"]), "None")
ActiveTab(tabs) ==
  IF \E j \in 1..Len(tabs) : tabs[j].active
  THEN LET first == CHOOSE j \in 1..Len(tabs) :
                      /\ tabs[j].active
                      /\ \A i \in 1..(j - 1) : ~tabs[i].active
       IN  tabs[first].name
  ELSE "None"

\* Mutant of Status: the test is "is not None", true of every flag.
Status_Always(tab) == IF tab.active \in BOOLEAN THEN "[ACTIVE]" ELSE ""

\* "[ACTIVE]" if tab["active"] else ""
Status(tab) == IF tab.active THEN "[ACTIVE]" ELSE ""

\* Mutant of CountStr: the test is the truth value of the count, so 0 is
\* taken for absent.
CountStr_Truthy(tab) ==
  IF tab.count # None /\ tab.count[1] # 0
  THEN "(" \o Str(tab.count[1]) \o ")"
  ELSE "(-)"

\* f"({tab['count']})" if tab["count"] is not None else "(-)"
CountStr(tab) ==
  IF tab.count # None THEN "(" \o Str(tab.count[1]) \o ")" ELSE "(-)"

\* f"      <U+2022> {tab['name']} {count_str} {status}"
TabText(tab) ==
  "      <U+2022> " \o tab.name \o " " \o CountStr(tab) \o " " \o Status(tab)

\* f"   {i}. {feature}"
FeatureText(i, feature) == "   " \o Str(i) \o ". " \o feature

\* Mutant of PlatformItems: sorted(platforms_data.items()).
PlatformItems_Sorted ==
  << platforms_data[2], platforms_data[1], platforms_data[3] >>

\* platforms_data.items(): the entries in insertion order.
PlatformItems == platforms_data

\* Mutant of RecommendationItems: sorted(recommendations.items()); the
\* labels sort by their first code point, 1F534 < 1F7E1 < 1F7E2.
RecommendationItems_Sorted ==
  << recommendations[3], recommendations[2], recommendations[1] >>

\* recommendations.items(): the entries in insertion order.
RecommendationItems == recommendations

\* enumerate(seq, start): the pairs (start, seq[first]), (start + 1, ...), ...
Enumerate(seq, start) == [j \in 1..Len(seq) |-> <<start + j - 1, seq[j]>>]

\* Mutant of FeatureItems: enumerate without its start argument.
FeatureItems_FromZero(data) == Enumerate(data.unique_features, 0)

\* enumerate(data["unique_features"], 1)
FeatureItems(data) == Enumerate(data.unique_features, 1)

Emit(lines) == out' = out \o lines

(***************************************************************************)
(* The state after the interpreter has entered analyze_platforms for the   *)
(* first time; p, t, f, c, k are the positions of the five for loops.      *)
(***************************************************************************)
Init ==
  /\ pc = "banner"
  /\ p = 0 /\ t = 0 /\ f = 0 /\ c = 0 /\ k = 0
  /\ clock = 0
  /\ out = <<>>
  /\ runs = <<>>

\* The wall clock advances on its own.
Tick ==
  /\ clock < MaxTick
  /\ clock' = clock + 1
  /\ UNCHANGED <<pc, p, t, f, c, k, out, runs>>

\* Lines 12-13.
Banner ==
  /\ pc = "banner"
  /\ Emit(<< Line(12, "<U+1F680> TURKISH E-COMMERCE PLATFORM ANALYSIS"),
             Line(13, Repeat("=", 60)) >>)
  /\ pc' = "date"
  /\ UNCHANGED <<p, t, f, c, k, clock, runs>>

\* Line 14: the one read of the clock.
AnalysisDate ==
  /\ pc = "date"
  /\ Emit(<< Line(14, "Analysis Date: " \o Strftime(Now(clock))) >>)
  /\ pc' = "rule"
  /\ UNCHANGED <<p, t, f, c, k, clock, runs>>

\* Line 15.
Rule ==
  /\ pc = "rule"
  /\ Emit(<< Line(15, Repeat("=", 60)) >>)
  /\ pc' = "tabs_header"
  /\ UNCHANGED <<p, t, f, c, k, clock, runs>>

\* Lines 78-79.
StatusTabHeader ==
  /\ pc = "tabs_header"
  /\ Emit(<< Line(78, "\n<U+1F4CA> STATUS TAB ANALYSIS"),
             Line(79, Repeat("-", 40)) >>)
  /\ p' = 0
  /\ pc' = "tabs_for"
  /\ UNCHANGED <<t, f, c, k, clock, runs>>

\* Mutant of StatusTabFor: a break at the end of the loop body, so the loop
\* is left after the first platform.
StatusTabFor_Break ==
  /\ pc = "tabs_for"
  /\ IF p < 1
     THEN p' = p + 1 /\ pc' = "tab_heading"
     ELSE p' = p /\ pc' = "features_header"
  /\ UNCHANGED <<t, f, c, k, clock, out, runs>>

\* Line 80: the for statement takes the next platform or leaves the loop.
StatusTabFor ==
  /\ pc = "tabs_for"
  /\ IF p < Len(PlatformItems)
     THEN p' = p + 1 /\ pc' = "tab_heading"
     ELSE p' = p /\ pc' = "features_header"
  /\ UNCHANGED <<t, f, c, k, clock, out, runs>>

\* Line 81.
StatusTabHeading ==
  /\ pc = "tab_heading"
  /\ Emit(<< Line(81, HeadingText(PlatformItems[p].name)) >>)
  /\ pc' = "tab_total"
  /\ UNCHANGED <<p, t, f, c, k, clock, runs>>

\* Line 82.
TotalCategories ==
  /\ pc = "tab_total"
  /\ Emit(<< Line(82, TotalText(PlatformItems[p])) >>)
  /\ pc' = "tab_active"
  /\ UNCHANGED <<p, t, f, c, k, clock, runs>>

\* Lines 83-86.
PrintActiveTab ==
  /\ pc = "tab_active"
  /\ Emit(<< Line(86, "   Active Tab: "
                        \o ActiveTab(PlatformItems[p].status_tabs)) >>)
  /\ t' = 0
  /\ pc' = "tab_for"
  /\ UNCHANGED <<p, f, c, k, clock, runs>>

\* Line 88.
TabFor ==
  /\ pc = "tab_for"
  /\ IF t < Len(PlatformItems[p].status_tabs)
     THEN t' = t + 1 /\ pc' = "tab_line"
     ELSE t' = t /\ pc' = "tabs_for"
  /\ UNCHANGED <<p, f, c, k, clock, out, runs>>

\* Lines 89-91.
TabLine ==
  /\ pc = "tab_line"
  /\ Emit(<< Line(91, TabText(PlatformItems[p].status_tabs[t])) >>)
  /\ pc' = "tab_for"
  /\ UNCHANGED <<p, t, f, c, k, clock, runs>>

\* Lines 94-95.
FeatureHeader ==
  /\ pc = "features_header"
  /\ Emit(<< Line(94, "\n<U+1F4A1> UNIQUE FEATURES & INNOVATIONS"),
             Line(95, Repeat("-", 40)) >>)
  /\ p' = 0
  /\ pc' = "features_for"
  /\ UNCHANGED <<t, f, c, k, clock, runs>>

\* Line 96.
FeaturePlatformFor ==
  /\ pc = "features_for"
  /\ IF p < Len(PlatformItems)
     THEN p' = p + 1 /\ pc' = "feature_heading"
     ELSE p' = p /\ pc' = "insights"
  /\ UNCHANGED <<t, f, c, k, clock, out, runs>>

\* Line 97.
FeatureHeading ==
  /\ pc = "feature_heading"
  /\ Emit(<< Line(97, HeadingText(PlatformItems[p].name)) >>)
  /\ f' = 0
  /\ pc' = "feature_for"
  /\ UNCHANGED <<p, t, c, k, clock, runs>>

\* Line 98.
FeatureFor ==
  /\ pc = "feature_for"
  /\ IF f < Len(FeatureItems(PlatformItems[p]))
     THEN f' = f + 1 /\ pc' = "feature_line"
     ELSE f' = f /\ pc' = "features_for"
  /\ UNCHANGED <<p, t, c, k, clock, out, runs>>

\* Line 99.
FeatureLine ==
  /\ pc = "feature_line"
  /\ LET item == FeatureItems(PlatformItems[p])[f]
     IN  Emit(<< Line(99, FeatureText(item[1], item[2])) >>)
  /\ pc' = "feature_for"
  /\ UNCHANGED <<p, t, f, c, k, clock, runs>>

\* Lines 102-108.
KeyInsights ==
  /\ pc = "insights"
  /\ Emit(<< Line(102, "\n<U+1F3AF> KEY INSIGHTS"),
             Line(103, Repeat("-", 40)),
             Line(104, "<U+2705> N11 has the most sophisticated status management (7 categories)"),
             Line(105, "<U+1F4B0> Hepsiburada leads in competitive intelligence features"),
             Line(106, "<U+1F4CA> All platforms prioritize table customization"),
             Line(107, "<U+1F504> Our implementation aligns with industry standards"),
             Line(108, "<U+1F680> Table Settings Modal matches N11/Hepsiburada patterns") >>)
  /\ pc' = "recs_header"
  /\ UNCHANGED <<p, t, f, c, k, clock, runs>>

\* Lines 111-112.
RecommendationHeader ==
  /\ pc = "recs_header"
  /\ Emit(<< Line(111, "\n<U+1F680> IMPLEMENTATION RECOMMENDATIONS"),
             Line(112, Repeat("-", 40)) >>)
  /\ c' = 0
  /\ pc' = "recs_for"
  /\ UNCHANGED <<p, t, f, k, clock, runs>>

\* Line 135.
CategoryFor ==
  /\ pc = "recs_for"
  /\ IF c < Len(RecommendationItems)
     THEN c' = c + 1 /\ pc' = "rec_label"
     ELSE c' = c /\ pc' = "footer"
  /\ UNCHANGED <<p, t, f, k, clock, out, runs>>

\* Line 136.
CategoryLabel ==
  /\ pc = "rec_label"
  /\ Emit(<< Line(136, "\n" \o RecommendationItems[c].category \o ":") >>)
  /\ k' = 0
  /\ pc' = "items_for"
  /\ UNCHANGED <<p, t, f, c, clock, runs>>

\* Line 137.
ItemFor ==
  /\ pc = "items_for"
  /\ IF k < Len(RecommendationItems[c].items)
     THEN k' = k + 1 /\ pc' = "rec_item"
     ELSE k' = k /\ pc' = "recs_for"
  /\ UNCHANGED <<p, t, f, c, clock, out, runs>>

\* Line 138.
RecommendationItem ==
  /\ pc = "rec_item"
  /\ Emit(<< Line(138, "   " \o RecommendationItems[c].items[k]) >>)
  /\ pc' = "items_for"
  /\ UNCHANGED <<p, t, f, c, k, clock, runs>>

\* Mutant of Footer: the closing banner reads the clock as well.
Footer_Dated ==
  /\ pc = "footer"
  /\ Emit(<< Line(140, "\n" \o Repeat("=", 60)),
             Line(141, "<U+1F3C6> ANALYSIS COMPLETE "
                         \o Strftime(Now(clock))),
             Line(142, "<U+2728> Our table settings implementation is industry-standard!"),
             Line(143, "<U+1F3AF> Next focus: Advanced status management system"),
             Line(144, Repeat("=", 60)) >>)
  /\ pc' = "done"
  /\ UNCHANGED <<p, t, f, c, k, clock, runs>>

\* Lines 140-144.
Footer ==
  /\ pc = "footer"
  /\ Emit(<< Line(140, "\n" \o Repeat("=", 60)),
             Line(141, "<U+1F3C6> ANALYSIS COMPLETE"),
             Line(142, "<U+2728> Our table settings implementation is industry-standard!"),
             Line(143, "<U+1F3AF> Next focus: Advanced status management system"),
             Line(144, Repeat("=", 60)) >>)
  /\ pc' = "done"
  /\ UNCHANGED <<p, t, f, c, k, clock, runs>>

\* Lines 147-148: the script is run again; the finished output is kept in
\* runs and every local starts afresh.
Invoke ==
  /\ pc = "done"
  /\ Len(runs) + 1 < MaxRuns
  /\ runs' = Append(runs, out)
  /\ out' = <<>>
  /\ pc' = "banner"
  /\ p' = 0 /\ t' = 0 /\ f' = 0 /\ c' = 0 /\ k' = 0
  /\ UNCHANGED clock

Next ==
  \/ Tick
  \/ Banner \/ AnalysisDate \/ Rule
  \/ StatusTabHeader \/ StatusTabFor \/ StatusTabHeading \/ TotalCategories
  \/ PrintActiveTab \/ TabFor \/ TabLine
  \/ FeatureHeader \/ FeaturePlatformFor \/ FeatureHeading \/ FeatureFor
  \/ FeatureLine
  \/ KeyInsights
  \/ RecommendationHeader \/ CategoryFor \/ CategoryLabel \/ ItemFor
  \/ RecommendationItem
  \/ Footer
  \/ Invoke

Spec == Init /\ [][Next]_vars

(***************************************************************************)
(* Reading the output back: what a reader of the printed report sees.      *)
(***************************************************************************)
Done == pc = "done"

Texts(o) == [j \in 1..Len(o) |-> o[j].text]

\* The print calls of o made at source line at, in order.
At(o, at) == SelectSeq(o, LAMBDA r : r.at = at)

\* How many of the first n calls of o were made at source line at.
CountAt(o, at, n) == Cardinality({j \in 1..n : o[j].at = at})

RECURSIVE Pick(_, _, _)
\* The texts of the calls of o whose positions are in S, among the first n.
Pick(o, S, n) ==
  IF n = 0 THEN <<>>
  ELSE IF n \in S THEN Append(Pick(o, S, n - 1), o[n].text)
  ELSE Pick(o, S, n - 1)

\* The texts printed at line lineAt under the q-th heading printed at line
\* headAt: after that heading and before the next one.
Block(o, headAt, lineAt, q) ==
  Pick(o, {j \in 1..Len(o) : o[j].at = lineAt /\ CountAt(o, headAt, j) = q},
       Len(o))

IsPrefix(a, b) == Len(a) <= Len(b) /\ \A j \in 1..Len(a) : a[j] = b[j]

StartsWith(s, pre) == Len(pre) <= Len(s) /\ SubSeq(s, 1, Len(pre)) = pre

EndsWith(s, suf) ==
  Len(suf) <= Len(s) /\ SubSeq(s, Len(s) - Len(suf) + 1, Len(s)) = suf

\* What follows the prefix pre in s.
After(s, pre) == SubSeq(s, Len(pre) + 1, Len(s))

\* s up to and including the first occurrence of the character ch.
UpTo(s, ch) ==
  LET hits == {j \in 1..Len(s) : SubSeq(s, j, j) = ch}
      first == CHOOSE j \in hits : \A i \in hits : j <= i
  IN  IF hits = {} THEN s ELSE SubSeq(s, 1, first)

NPlatforms == Len(platforms_data)

\* The name that starts a tab line.
TabPrefix(tab) == "      <U+2022> " \o tab.name \o " "

ActivePrefix == "   Active Tab: "

TotalPrefix == "   Total Categories: "

\* The tabs whose flag is set, as positions in the list.
ActiveSet(tabs) == {j \in 1..Len(tabs) : tabs[j].active}

(***************************************************************************)
(* C1.  The Active Tab line of every platform names the first tab, in list *)
(* order, whose active flag is true, and reads "None" when the platform    *)
(* has no active tab: N11 -> Satistakiler, Hepsiburada -> None,            *)
(* Trendyol -> Tumu.                                                       *)
(***************************************************************************)
C1_Expected ==
  << "Sat<U+0131><U+015F>takiler", "None", "T<U+00FC>m<U+00FC>" >>

C1_FirstActive(tabs) ==
  IF ActiveSet(tabs) = {} THEN "None"
  ELSE tabs[CHOOSE j \in ActiveSet(tabs) :
              \A i \in ActiveSet(tabs) : j <= i].name

\* C1: every Active Tab line names the first active tab of its platform,
\* or "None" when the platform has none.
C1_ActiveTabIsFirstActive ==
  LET a == Texts(At(out, 86))
  IN  /\ Len(a) <= NPlatforms
      /\ Done => Len(a) = NPlatforms
      /\ \A q \in 1..Len(a) :
           /\ a[q] = ActivePrefix \o C1_FirstActive(platforms_data[q].status_tabs)
           /\ a[q] = ActivePrefix \o C1_Expected[q]

C1_Witness ==
  /\ Done
  /\ Texts(At(out, 86)) =
       << "   Active Tab: Sat<U+0131><U+015F>takiler",
          "   Active Tab: None",
          "   Active Tab: T<U+00FC>m<U+00FC>" >>

(***************************************************************************)
(* C2.  On every tab line the count reads "(N)", N the stored integer,     *)
(* whenever a number is stored (0 prints "(0)"), and reads "(-)" exactly   *)
(* when the stored count is None.                                          *)
(***************************************************************************)
RECURSIVE C2_Flatten(_, _)
\* The tabs of the first n platforms, in order.
C2_Flatten(ps, n) ==
  IF n = 0 THEN <<>> ELSE C2_Flatten(ps, n - 1) \o ps[n].status_tabs

AllTabs == C2_Flatten(platforms_data, NPlatforms)

C2_Expected ==
  << "(5376)", "(4776)", "(598)", "(0)", "(0)", "(1)", "(1)",
     "(1)", "(-)", "(-)", "(1)",
     "(-)", "(-)", "(-)", "(-)" >>

\* The count field of a tab line: what follows the name, up to ")".
C2_CountField(text, tab) == UpTo(After(text, TabPrefix(tab)), ")")

\* C2: a stored number N prints as "(N)", 0 as "(0)", and None, and only
\* None, as "(-)".
C2_CountRendering ==
  LET a == Texts(At(out, 91))
  IN  /\ Len(a) <= Len(AllTabs)
      /\ Done => Len(a) = Len(AllTabs)
      /\ \A j \in 1..Len(a) :
           LET tab == AllTabs[j]
               field == C2_CountField(a[j], tab)
           IN  /\ StartsWith(a[j], TabPrefix(tab))
               /\ (field = "(-)") <=> (tab.count = None)
               /\ tab.count # None => field = "(" \o Str(tab.count[1]) \o ")"
               /\ tab.count = <<0>> => field = "(0)"
               /\ field = C2_Expected[j]

C2_Witness ==
  /\ Len(At(out, 91)) >= 9
  /\ AllTabs[4].count = <<0>>
  /\ C2_CountField(At(out, 91)[4].text, AllTabs[4]) = "(0)"
  /\ AllTabs[9].count = None
  /\ C2_CountField(At(out, 91)[9].text, AllTabs[9]) = "(-)"

(***************************************************************************)
(* C3.  The Total Categories number of each platform is the length of its  *)
(* status-tab list, and so is the number of tab lines printed under that   *)
(* platform: N11 7, Hepsiburada 4, Trendyol 4.                             *)
(***************************************************************************)
C3_Expected == << "7", "4", "4" >>

\* The platforms whose tab lines are all out: every platform but the one
\* being printed.
C3_Finished(q) == Done \/ q < Len(At(out, 81)) \/ Len(At(out, 94)) > 0

\* C3: the Total Categories number is the length of the tab list and the
\* number of tab lines printed under the platform (7, 4, 4).
C3_TotalCategories ==
  LET a == Texts(At(out, 82))
  IN  /\ Len(a) <= NPlatforms
      /\ Done => Len(a) = NPlatforms
      /\ \A q \in 1..Len(a) :
           LET printed == After(a[q], TotalPrefix)
               lines == Block(out, 81, 91, q)
           IN  /\ StartsWith(a[q], TotalPrefix)
               /\ printed = C3_Expected[q]
               /\ printed = Str(Len(platforms_data[q].status_tabs))
               /\ Len(lines) <= Len(platforms_data[q].status_tabs)
               /\ C3_Finished(q) => printed = Str(Len(lines))

C3_Witness ==
  /\ Done
  /\ Texts(At(out, 82)) = << "   Total Categories: 7",
                             "   Total Categories: 4",
                             "   Total Categories: 4" >>
  /\ Len(Block(out, 81, 91, 1)) = 7
  /\ Len(Block(out, 81, 91, 2)) = 4
  /\ Len(Block(out, 81, 91, 3)) = 4

(***************************************************************************)
(* C4.  One run emits its sections in the order header, status-tab         *)
(* analysis, feature analysis, key insights, recommendations, footer, each *)
(* once and none interleaved with another; the status-tab section of all   *)
(* three platforms is finished before the first feature line.              *)
(***************************************************************************)
C4_Section(at) ==
  IF at \in 12..15 THEN 1
  ELSE IF at \in 78..91 THEN 2
  ELSE IF at \in 94..99 THEN 3
  ELSE IF at \in 102..108 THEN 4
  ELSE IF at \in 111..138 THEN 5
  ELSE IF at \in 140..144 THEN 6
  ELSE 0

\* C4: the sections come in the order header, status tabs, features,
\* insights, recommendations, footer, each once, and the status-tab section
\* is complete before the first line of the feature section.
C4_SectionOrder ==
  /\ \A j \in 1..Len(out) : C4_Section(out[j].at) \in 1..6
  /\ Len(out) > 0 => C4_Section(out[1].at) = 1
  /\ \A j \in 1..(Len(out) - 1) :
       \/ C4_Section(out[j + 1].at) = C4_Section(out[j].at)
       \/ C4_Section(out[j + 1].at) = C4_Section(out[j].at) + 1
  /\ Done => C4_Section(out[Len(out)].at) = 6
  /\ Done => Len(At(out, 12)) = 1 /\ Len(At(out, 14)) = 1
  /\ (\E j \in 1..Len(out) : C4_Section(out[j].at) = 3) =>
       /\ Len(At(out, 81)) = NPlatforms
       /\ Len(At(out, 91)) = Len(AllTabs)
       /\ \A q \in 1..NPlatforms :
            Len(Block(out, 81, 91, q)) = Len(platforms_data[q].status_tabs)

C4_Witness ==
  /\ Done
  /\ \A n \in 1..6 : \E j \in 1..Len(out) : C4_Section(out[j].at) = n
  /\ Len(At(out, 99)) > 0

(***************************************************************************)
(* C5.  The feature section prints every feature of every platform once,   *)
(* in stored order, the k-th with the number k, counting from 1 anew for   *)
(* each platform (N11 1..7, Hepsiburada 1..7, Trendyol 1..6).              *)
(***************************************************************************)
C5_Numerals == << "1", "2", "3", "4", "5", "6", "7" >>

C5_Counts == << 7, 7, 6 >>

C5_Expected(q) ==
  [j \in 1..Len(platforms_data[q].unique_features) |->
     "   " \o C5_Numerals[j] \o ". " \o platforms_data[q].unique_features[j]]

\* The platforms whose features are all out.
C5_Finished(q) == Done \/ q < Len(At(out, 97)) \/ Len(At(out, 102)) > 0

\* C5: under each platform the features are printed once each, in stored
\* order, numbered from 1.
C5_FeaturesNumbered ==
  /\ Len(At(out, 97)) <= NPlatforms
  /\ Block(out, 97, 99, 0) = <<>>
  /\ \A q \in 1..NPlatforms :
       /\ Len(C5_Expected(q)) = C5_Counts[q]
       /\ IsPrefix(Block(out, 97, 99, q), C5_Expected(q))
       /\ C5_Finished(q) => Block(out, 97, 99, q) = C5_Expected(q)

C5_Witness ==
  /\ Done
  /\ Len(Block(out, 97, 99, 1)) = 7
  /\ Len(Block(out, 97, 99, 2)) = 7
  /\ Block(out, 97, 99, 3)[6] = "   6. Advanced filter panel"
  /\ Block(out, 97, 99, 2)[1] = "   1. Buybox position tracking"

(***************************************************************************)
(* C6.  The recommendations section prints the labels high priority,       *)
(* medium priority, future enhancements in that order, and under each      *)
(* label every item of the category once, in stored order, before the      *)
(* next label.                                                             *)
(***************************************************************************)
C6_Labels ==
  << "\n<U+1F7E2> HIGH PRIORITY:",
     "\n<U+1F7E1> MEDIUM PRIORITY:",
     "\n<U+1F534> FUTURE ENHANCEMENTS:" >>

C6_Items(q) ==
  [j \in 1..Len(recommendations[q].items) |->
     "   " \o recommendations[q].items[j]]

\* The categories whose items are all out.
C6_Finished(q) == Done \/ q < Len(At(out, 136)) \/ Len(At(out, 140)) > 0

\* C6: the labels come in the order high, medium, future, each followed by
\* all its items in stored order before the next label.
C6_RecommendationOrder ==
  /\ IsPrefix(Texts(At(out, 136)), C6_Labels)
  /\ Done => Texts(At(out, 136)) = C6_Labels
  /\ Block(out, 136, 138, 0) = <<>>
  /\ \A q \in 1..Len(recommendations) :
       /\ IsPrefix(Block(out, 136, 138, q), C6_Items(q))
       /\ C6_Finished(q) => Block(out, 136, 138, q) = C6_Items(q)

C6_Witness ==
  /\ Done
  /\ Len(At(out, 136)) = 3
  /\ Len(At(out, 138)) = 12
  /\ Block(out, 136, 138, 3)[4] = "   <U+1F4CB> Catalog Approval Workflows"

(***************************************************************************)
(* C7.  Two runs print the same sequence of lines at every position but    *)
(* the Analysis Date line: the clock read decides that one line and no     *)
(* other, and nothing else decides any line.                               *)
(***************************************************************************)
\* Run b so far agrees with run a wherever it is not the date print.
C7_Agree(a, b) ==
  /\ Len(b) <= Len(a)
  /\ \A j \in 1..Len(b) :
       /\ b[j].at = a[j].at
       /\ b[j].at # 14 => b[j].text = a[j].text

\* C7: every run agrees with every other run at each print call but the
\* one of line 14, of which each run makes exactly one.
C7_SameButDate ==
  /\ \A r \in 1..Len(runs) :
       /\ C7_Agree(runs[r], out)
       /\ Done => Len(out) = Len(runs[r])
       /\ Len(At(runs[r], 14)) = 1
       /\ \A r2 \in 1..Len(runs) :
            C7_Agree(runs[r], runs[r2]) /\ Len(runs[r]) = Len(runs[r2])
  /\ Len(At(out, 14)) <= 1
  /\ Done => Len(At(out, 14)) = 1

\* Two finished runs that read different minutes: every line but the date
\* line is the same, and the date lines differ.
C7_Witness ==
  /\ Done
  /\ Len(runs) >= 1
  /\ Len(out) = Len(runs[1])
  /\ At(out, 14)[1].text # At(runs[1], 14)[1].text
  /\ At(out, 14)[1].text = "Analysis Date: 2026-01-05 10:00"
  /\ At(runs[1], 14)[1].text = "Analysis Date: 2026-01-05 09:59"

(***************************************************************************)
(* C8.  The status-tab section and the feature section both visit N11,     *)
(* then Hepsiburada, then Trendyol, each once, and print all lines of one  *)
(* platform before any line of the next.                                   *)
(***************************************************************************)
C8_Headings ==
  << "\n<U+1F3E2> N11:", "\n<U+1F3E2> HEPSIBURADA:", "\n<U+1F3E2> TRENDYOL:" >>

\* The lines under the q-th heading of the status-tab section belong to
\* platform q: one total, one active tab, then its tabs by name, in order.
C8_TabBlock(q) ==
  LET tabs == platforms_data[q].status_tabs
      lines == Block(out, 81, 91, q)
  IN  /\ Len(Block(out, 81, 82, q)) <= 1
      /\ Len(Block(out, 81, 86, q)) <= 1
      /\ Len(lines) <= Len(tabs)
      /\ \A j \in 1..Len(lines) : StartsWith(lines[j], TabPrefix(tabs[j]))
      /\ C3_Finished(q) =>
           /\ Len(lines) = Len(tabs)
           /\ Len(Block(out, 81, 82, q)) = 1
           /\ Len(Block(out, 81, 86, q)) = 1

\* The lines under the q-th heading of the feature section are the
\* features of platform q, in order.
C8_FeatureBlock(q) ==
  LET feats == platforms_data[q].unique_features
      lines == Block(out, 97, 99, q)
  IN  /\ Len(lines) <= Len(feats)
      /\ \A j \in 1..Len(lines) : EndsWith(lines[j], ". " \o feats[j])
      /\ C5_Finished(q) => Len(lines) = Len(feats)

\* C8: both sections visit N11, Hepsiburada, Trendyol in this order, once
\* each, the lines of one platform before any line of the next.
C8_PlatformOrder ==
  /\ IsPrefix(Texts(At(out, 81)), C8_Headings)
  /\ IsPrefix(Texts(At(out, 97)), C8_Headings)
  /\ Done => Texts(At(out, 81)) = C8_Headings
  /\ Done => Texts(At(out, 97)) = C8_Headings
  /\ \A q \in 1..NPlatforms : StartsWith(C8_Headings[q],
                                 "\n<U+1F3E2> " \o SubSeq(platforms_data[q].name, 1, 1))
  /\ \A at \in {82, 86, 91} : Block(out, 81, at, 0) = <<>>
  /\ Block(out, 97, 99, 0) = <<>>
  /\ \A q \in 1..NPlatforms : C8_TabBlock(q) /\ C8_FeatureBlock(q)

C8_Witness ==
  /\ Done
  /\ Len(At(out, 81)) = 3
  /\ Len(At(out, 97)) = 3
  /\ At(out, 81)[2].text = "\n<U+1F3E2> HEPSIBURADA:"
  /\ At(out, 97)[3].text = "\n<U+1F3E2> TRENDYOL:"

(***************************************************************************)
(* C9.  As claimed: the heading of each platform, in the status-tab        *)
(* section and in the feature section, shows the platform's name exactly   *)
(* as it is stored ("N11", "Hepsiburada", "Trendyol").                     *)
(***************************************************************************)
\* C9 (as claimed): every platform heading shows the name as stored.
C9_HeadingAsStored ==
  \A at \in {81, 97} :
    \A q \in 1..Len(At(out, at)) :
      At(out, at)[q].text = "\n<U+1F3E2> " \o platforms_data[q].name \o ":"

(***************************************************************************)
(* C9, amended.  The heading of each platform, in both sections, shows the *)
(* platform's name converted to upper case: "N11", "HEPSIBURADA",          *)
(* "TRENDYOL".                                                             *)
(***************************************************************************)
C9_UpperNames == << "N11", "HEPSIBURADA", "TRENDYOL" >>

\* C9 (amended): every platform heading shows the name in upper case.
C9_HeadingUpperCase ==
  \A at \in {81, 97} :
    /\ Len(At(out, at)) <= NPlatforms
    /\ Done => Len(At(out, at)) = NPlatforms
    /\ \A q \in 1..Len(At(out, at)) :
         At(out, at)[q].text = "\n<U+1F3E2> " \o C9_UpperNames[q] \o ":"

C9_Witness ==
  /\ Len(At(out, 81)) >= 2
  /\ Len(At(out, 97)) >= 2
  /\ platforms_data[2].name = "Hepsiburada"
  /\ After(At(out, 81)[2].text, "\n<U+1F3E2> ") = "HEPSIBURADA:"
  /\ After(At(out, 97)[2].text, "\n<U+1F3E2> ") = "HEPSIBURADA:"

(***************************************************************************)
(* C10.  A tab line carries "[ACTIVE]" iff the tab's flag is true, so a    *)
(* platform has as many marked lines as active tabs; it prints             *)
(* "Active Tab: None" exactly when none of its lines is marked, and when   *)
(* it prints a name its first marked line is the line of that tab.  In the *)
(* embedded data the marked lines number N11 1, Hepsiburada 0, Trendyol 1. *)
(***************************************************************************)
C10_Marked(text) == EndsWith(text, "[ACTIVE]")

C10_MarkedSet(lines) == {j \in 1..Len(lines) : C10_Marked(lines[j])}

C10_MarkedCounts == << 1, 0, 1 >>

C10_Platform(q) ==
  LET tabs == platforms_data[q].status_tabs
      lines == Block(out, 81, 91, q)
      marked == C10_MarkedSet(lines)
      active == Block(out, 81, 86, q)
  IN  /\ \A j \in 1..Len(lines) : C10_Marked(lines[j]) <=> tabs[j].active
      /\ \A j \in 1..Len(lines) :
           ~C10_Marked(lines[j]) => EndsWith(lines[j], ") ")
      /\ C3_Finished(q) =>
           /\ Cardinality(marked) = Cardinality(ActiveSet(tabs))
           /\ Cardinality(marked) = C10_MarkedCounts[q]
           /\ Cardinality(marked) <= 1
           /\ (active[1] = ActivePrefix \o "None") <=> (marked = {})
           /\ marked # {} =>
                LET first == CHOOSE j \in marked : \A i \in marked : j <= i
                IN  StartsWith(lines[first],
                      "      <U+2022> " \o After(active[1], ActivePrefix) \o " ")

\* C10: a tab line is marked "[ACTIVE]" iff its tab is active, and the
\* Active Tab line of each platform agrees with its marked lines.
C10_MarkerMatchesFlag == \A q \in 1..NPlatforms : C10_Platform(q)

C10_Witness ==
  /\ Done
  /\ C10_MarkedSet(Block(out, 81, 91, 1)) = {2}
  /\ C10_MarkedSet(Block(out, 81, 91, 2)) = {}
  /\ C10_MarkedSet(Block(out, 81, 91, 3)) = {1}
  /\ Block(out, 81, 86, 2) = << "   Active Tab: None" >>

====
